---------------------------- MODULE Spec2Model ----------------------------
(***************************************************************************)
(* Model of the async_rust workspace: the single-threaded Executor of the  *)
(* `runtime` crate (schedule / block / MyWaker::wake), the thread-backed   *)
(* AsyncTimer of the `async_timer` crate, and the hand-expanded state      *)
(* machines Coroutine (coroutines/main.rs) and CoroutineB (pin/main.rs),   *)
(* and the epoll-backed Poll / Registry of `timer_event_queue`.             *)
(***************************************************************************)
EXTENDS Integers, Sequences, FiniteSets, TLC

(***************************************************************************)
(* Bounds of the model.                                                    *)
(***************************************************************************)
MaxTasks == 2
MaxWaits == 2
MaxExtraWakes == 1
MaxPolls == 7
MaxMoves == 2
MaxSources == 2
MaxToken == 1
MaxCap == 2
MaxHandles == 2

Ids == 0 .. (MaxTasks - 1)
NoId == -1

VARIABLES
    tasks,        \* Executor.tasks: HashMap<usize, Task>
    ready_queue,  \* Executor.ready_queue: VecDeque<usize> behind the Mutex
    next_id,      \* Executor.next_id
    pc,           \* position of the thread that owns the Executor
    cur,          \* `id` bound by the while-let of block
    future,       \* `future` taken out of the table for the drive
    ret,          \* result of the last poll made by block
    guard,        \* the executor thread holds the ready-queue MutexGuard
    poisoned,     \* the ready-queue Mutex is poisoned
    park_token,   \* the park/unpark token of the executor thread
    sleeping,     \* per id: AsyncTimer threads spawned and not yet in wake
    unparkers,    \* threads between push_back and unpark inside wake
    extra,        \* wakes made through clones of a handle held elsewhere
    fault,        \* how the executor thread stopped, if it did
    wake_failed,  \* some thread panicked inside MyWaker::wake
    kind_of,      \* history: kind of the future scheduled under each id
    pushed,       \* history: number of push_back calls so far
    popped,       \* history: number of successful pop_front calls so far
    tickets,      \* history: for each queue entry, which push made it
    cur_ticket,   \* history: which push made the entry bound to `id`
    ndrives,      \* history: per id, drives begun
    nready,       \* history: per id, drives that returned Ready
    nfires,       \* history: per id, wakes that pushed the id
    fresh,        \* history: per id, wakes since its previous drive began
    advances,     \* history: per id, AsyncTimers that reported Ready
    timer_fired,  \* history: per id, AsyncTimer threads that called wake
    printed,      \* history: per id, the lines its future printed, in order
    co,           \* a hand-expanded computation polled directly
    co_ret,       \* result of the last direct poll of co
    co_polls,     \* number of direct polls of co
    co_hist,      \* history: the phase co was left in by each direct poll
    co_trace,     \* history: what the last direct poll of co reported
    co_out,       \* history: the lines co printed, in order
    co_moves,     \* times the owner moved co to another place in memory
    poll_fd,      \* Poll.registry.raw_fd of the live Poll, NoFd if there is none
    interest,     \* kernel: interest list of the epoll instance, fd -> token
    readable,     \* kernel: the TcpStreams that have data to read
    re_last,      \* the last reactor call: its inputs, OS result and outcome
    first_reg,    \* history: per stream, its first register call on this Poll
    seen_ready,   \* history: streams a poll of this Poll has reported ready
    at,           \* an AsyncTimer polled directly by its owner
    at_handles,   \* history: the wake handle given to each direct poll of at
    at_spawns,    \* history: the threads each direct poll of at spawned
    at_sleeping,  \* the handles held by threads of at that are still asleep
    at_wakes      \* history: per handle, the calls of wake made by threads of at

execVars == <<tasks, ready_queue, next_id, pc, cur, future, ret, guard,
              poisoned, park_token, sleeping, unparkers, extra, fault,
              wake_failed>>
histVars == <<kind_of, pushed, popped, tickets, cur_ticket, ndrives, nready, nfires, fresh,
              advances, timer_fired, printed>>
coVars == <<co, co_ret, co_polls, co_hist, co_trace, co_out, co_moves>>
reVars == <<poll_fd, interest, readable, re_last, first_reg, seen_ready>>
atVars == <<at, at_handles, at_spawns, at_sleeping, at_wakes>>
vars == <<execVars, histVars, coVars, reVars, atVars>>

(***************************************************************************)
(* Futures.  A future is a record; `kind` tells which code polls it.       *)
(*   "async"      an async fn awaiting `waits` AsyncTimers in sequence     *)
(*   "custom"     the same, but clones of its wake handle are also held    *)
(*                by code that may invoke them at any time                 *)
(*   "CoroutineB" the hand-expanded state machine of pin/main.rs           *)
(*   "Coroutine"  the hand-expanded state machine of coroutines/main.rs    *)
(***************************************************************************)
NoBuffer == [some |-> FALSE, val |-> <<>>]
NoTask == [kind |-> "none", state |-> "Start", waits |-> 0, started |-> FALSE,
           buffer |-> NoBuffer, writer |-> FALSE]

\* AsyncTimer::new
AsyncTimerNew == [started |-> FALSE]

\* Faulty variant of AsyncTimerPoll: `self.started = true` is missing.
AsyncTimerPoll_neverStarted(t) ==
    IF ~t.started
    THEN [timer |-> t, ret |-> "Pending", spawn |-> 1]
    ELSE [timer |-> t, ret |-> "Ready", spawn |-> 0]

\* AsyncTimer::poll: the first poll spawns the thread and is Pending, every
\* later poll is Ready.
AsyncTimerPoll(t) ==
    IF ~t.started
    THEN [timer |-> [started |-> TRUE], ret |-> "Pending", spawn |-> 1]
    ELSE [timer |-> t, ret |-> "Ready", spawn |-> 0]

\* tokio::time::sleep polled by Coroutine: Ready when the deadline has
\* passed at the time of the poll (`elapsed` is the clock's answer).
SleepPoll(elapsed) == IF elapsed THEN "Ready" ELSE "Pending"

\* Body of an async fn that awaits `waits` AsyncTimers one after another
\* (timering, timering2, looping_timer): one resumption.
RECURSIVE AsyncBody(_, _, _)
AsyncBody(f, spawn, adv) ==
    IF f.waits = 0
    THEN [fut |-> [f EXCEPT !.state = "Resolved"], ret |-> "Ready",
          spawn |-> spawn, adv |-> adv]
    ELSE LET t == AsyncTimerPoll([started |-> f.started]) IN
         IF t.ret = "Pending"
         THEN [fut |-> [f EXCEPT !.state = "Wait", !.started = t.timer.started],
               ret |-> "Pending", spawn |-> spawn + t.spawn, adv |-> adv]
         ELSE AsyncBody([f EXCEPT !.waits = @ - 1, !.started = AsyncTimerNew.started],
                        spawn, adv + 1)

\* What one poll of a future reports besides its result: the threads it
\* spawned, the AsyncTimers that reported Ready, the phases it assigned to
\* `state` (in order), the results of the nested polls it made (in order)
\* and the lines it printed (message and buffer shown); the prints of the
\* async fns of runtime/main.rs are not traced.
NoTrace == [spawn |-> 0, adv |-> 0, path |-> <<>>, nested |-> <<>>, out |-> <<>>]
Result(f, r, a) ==
    [fut |-> f, ret |-> r, spawn |-> a.spawn, adv |-> a.adv, path |-> a.path,
     nested |-> a.nested, out |-> a.out]
Line(msg, buf) == [msg |-> msg, buf |-> buf]

PollAsync(f) ==
    IF f.state = "Resolved"
    THEN Result(f, "panic", NoTrace)
    ELSE LET r == AsyncBody(f, 0, 0) IN
         Result(r.fut, r.ret, [NoTrace EXCEPT !.spawn = r.spawn, !.adv = r.adv])

\* CoroutineB::new
CoroutineBNew == [kind |-> "CoroutineB", state |-> "Start", waits |-> 2,
                  started |-> FALSE, buffer |-> NoBuffer, writer |-> FALSE]

\* <CoroutineB as Future>::poll.  `writer` is the raw pointer into
\* stack.buffer; writing through it appends to the buffer.
RECURSIVE CoroutineBLoop(_, _)
CoroutineBLoop(f, a) ==
    CASE f.state = "Start" ->
           CoroutineBLoop([f EXCEPT !.buffer = [some |-> TRUE, val |-> <<>>],
                                    !.writer = TRUE,
                                    !.state = "Wait1",
                                    !.started = AsyncTimerNew.started],
                          [a EXCEPT !.path = Append(@, "Wait1"),
                                    !.out = Append(@, Line("Coroutine started", <<>>))])
      [] f.state = "Wait1" ->
           LET t == AsyncTimerPoll([started |-> f.started])
               n == [a EXCEPT !.nested = Append(@, t.ret)] IN
           IF t.ret = "Pending"
           THEN Result([f EXCEPT !.started = t.timer.started], "Pending",
                       [n EXCEPT !.spawn = @ + t.spawn])
           ELSE IF ~f.writer
           THEN Result(f, "panic", [n EXCEPT !.adv = @ + 1])
           ELSE CoroutineBLoop([f EXCEPT !.buffer.val = Append(@, "Hello "),
                                         !.state = "Wait2",
                                         !.waits = 1,
                                         !.started = AsyncTimerNew.started,
                                         !.writer = TRUE],
                               [n EXCEPT !.adv = @ + 1,
                                         !.path = Append(@, "Wait2"),
                                         !.out = Append(@, Line("2 seconds elapsed",
                                                      Append(f.buffer.val, "Hello ")))])
      [] f.state = "Wait2" ->
           LET t == AsyncTimerPoll([started |-> f.started])
               n == [a EXCEPT !.nested = Append(@, t.ret)] IN
           IF t.ret = "Pending"
           THEN Result([f EXCEPT !.started = t.timer.started], "Pending",
                       [n EXCEPT !.spawn = @ + t.spawn])
           ELSE IF ~f.writer
           THEN Result(f, "panic", [n EXCEPT !.adv = @ + 1])
           ELSE Result([f EXCEPT !.writer = FALSE,
                                 !.state = "Resolved",
                                 !.waits = 0,
                                 !.buffer = NoBuffer],
                       "Ready",
                       [n EXCEPT !.adv = @ + 1,
                                 !.path = Append(@, "Resolved"),
                                 !.out = Append(@, Line("4 seconds elapsed",
                                              Append(f.buffer.val, "World!!!")))])
      [] OTHER ->
           Result(f, "panic", a)

\* Faulty variant of PollCoroutineB: a poll after Resolved reports Ready again.
PollCoroutineB_resolvedReady(f) ==
    IF f.state = "Resolved"
    THEN Result(f, "Ready", NoTrace)
    ELSE CoroutineBLoop(f, NoTrace)

\* Faulty variant of PollCoroutineB: `write!(writer, "Hello ")` is missing.
NotHello(chunk) == chunk # "Hello "
PollCoroutineB_noHello(f) ==
    LET r == CoroutineBLoop(f, NoTrace) IN
    [r EXCEPT !.fut.buffer.val = SelectSeq(@, NotHello),
              !.out = [i \in 1 .. Len(r.out) |->
                         Line(r.out[i].msg, SelectSeq(r.out[i].buf, NotHello))]]

\* Faulty variant of PollCoroutineB: the Wait2 arm puts the pointer back
\* (`self.stack.writer = Some(writer)`) before it releases the buffer.
PollCoroutineB_keepWriter(f) ==
    LET r == CoroutineBLoop(f, NoTrace) IN
    IF r.ret = "Ready" THEN [r EXCEPT !.fut.writer = TRUE] ELSE r

PollCoroutineB(f) == CoroutineBLoop(f, NoTrace)

\* coroutine_transformed
CoroutineNew == [kind |-> "Coroutine", state |-> "Start", waits |-> 2,
                 started |-> FALSE, buffer |-> NoBuffer, writer |-> FALSE]

\* <Coroutine as Future>::poll; e1 and e2 are what the clock answers to the
\* poll of the first and of the second sleep, should this poll reach them.
RECURSIVE CoroutineLoop(_, _, _, _)
CoroutineLoop(f, e1, e2, a) ==
    CASE f.state = "Start" ->
           CoroutineLoop([f EXCEPT !.state = "Wait1"], e1, e2,
                         [a EXCEPT !.path = Append(@, "Wait1"),
                                   !.out = Append(@, Line("Coroutine started", <<>>))])
      [] f.state = "Wait1" ->
           LET n == [a EXCEPT !.nested = Append(@, SleepPoll(e1))] IN
           IF SleepPoll(e1) = "Pending"
           THEN Result(f, "Pending", n)
           ELSE CoroutineLoop([f EXCEPT !.state = "Wait2", !.waits = 1], e1, e2,
                              [n EXCEPT !.path = Append(@, "Wait2"),
                                        !.out = Append(@, Line("2 seconds elapsed", <<>>))])
      [] f.state = "Wait2" ->
           LET n == [a EXCEPT !.nested = Append(@, SleepPoll(e2))] IN
           IF SleepPoll(e2) = "Pending"
           THEN Result(f, "Pending", n)
           ELSE Result([f EXCEPT !.state = "Resolved", !.waits = 0], "Ready",
                       [n EXCEPT !.path = Append(@, "Resolved"),
                                 !.out = Append(@, Line("4 seconds elapsed", <<>>))])
      [] OTHER ->
           Result(f, "panic", a)

\* Faulty variant of PollCoroutine: when the second sleep is over the state
\* is set back to Start instead of Resolved.
PollCoroutine_restart(f, e1, e2) ==
    LET r == CoroutineLoop(f, e1, e2, NoTrace) IN
    IF r.ret = "Ready" THEN [r EXCEPT !.fut.state = "Start"] ELSE r

\* Faulty variant of PollCoroutine: the Pending arm of Wait1 moves on to
\* Wait2 before it returns.
PollCoroutine_skipWait(f, e1, e2) ==
    LET r == CoroutineLoop(f, e1, e2, NoTrace) IN
    IF r.ret = "Pending" /\ r.fut.state = "Wait1"
    THEN [r EXCEPT !.fut.state = "Wait2"]
    ELSE r

PollCoroutine(f, e1, e2) == CoroutineLoop(f, e1, e2, NoTrace)

\* future.as_mut().poll(&mut ctx) for the futures the Executor is given
PollTask(f) ==
    IF f.kind = "CoroutineB" THEN PollCoroutineB(f) ELSE PollAsync(f)

\* The futures handed to Executor::schedule
Kinds == {"async", "custom", "CoroutineB"}
NewTask(kind, n) ==
    IF kind = "CoroutineB" THEN CoroutineBNew
    ELSE [kind |-> kind, state |-> "Start", waits |-> n, started |-> FALSE,
          buffer |-> NoBuffer, writer |-> FALSE]

(***************************************************************************)
(* The Executor and the threads that invoke its wake handles.              *)
(***************************************************************************)
Bump(f, id, n) == [f EXCEPT ![id] = @ + n]
Without(t, id) == [i \in DOMAIN t \ {id} |-> t[i]]
With(t, id, f) == [i \in DOMAIN t \cup {id} |-> IF i = id THEN f ELSE t[i]]
Range(q) == {q[i] : i \in 1 .. Len(q)}
RECURSIVE SumWaits(_, _)
SumWaits(t, ids) ==
    IF ids = {} THEN 0
    ELSE LET i == CHOOSE x \in ids : TRUE IN t[i].waits + SumWaits(t, ids \ {i})
\* AsyncTimers the futures of a task table will await in all
Awaited(t) == SumWaits(t, DOMAIN t)

\* Executor::new, before main has scheduled anything
(***************************************************************************)
(* The reactor of timer_event_queue/poll.rs.  The extern functions of      *)
(* crate::ffi are the Linux epoll system calls; they are modelled by their *)
(* documented results.  `fail` stands for a failure the caller cannot      *)
(* rule out (EMFILE, ENOMEM, EINTR, EBADF).                                *)
(***************************************************************************)
Sources == 1 .. MaxSources
Tokens == 0 .. MaxToken
NoFd == -1
NoReg == [token |-> -1, result |-> "none"]
NoCall == [op |-> "none", src |-> NoFd, token |-> -1, os |-> 0, result |-> "none",
           fail |-> FALSE, cap |-> 0, len_before |-> 0, len |-> 0, batch |-> <<>>,
           timeout |-> 0, registered |-> 0, had_poll |-> FALSE]

\* `events.capacity() as i32`: the low 32 bits, read as a signed number.  A
\* capacity up to I32Max keeps its value, the next ones become negative.
I32Max == 2147483647
AsI32(n) == IF n <= I32Max THEN n ELSE ((n - I32Max) - 1) + ((-I32Max) - 1)

\* A timeout argument: None (wait without limit) or Some(100)
Timeouts == {[some |-> FALSE, val |-> 0], [some |-> TRUE, val |-> 100]}

\* ffi::epoll_create: a new descriptor, the lowest one above the streams the
\* caller holds, or -1
epoll_create(size, fail) ==
    IF fail \/ size <= 0 THEN -1 ELSE MaxSources + 1

\* ffi::epoll_ctl with EPOLL_CTL_ADD: -1 (EEXIST) when fd is already in the
\* interest list, otherwise fd is added with its epoll_data
epoll_ctl_add(list, fd, data, fail) ==
    IF fail \/ fd \in DOMAIN list
    THEN [res |-> -1, list |-> list]
    ELSE [res |-> 0, list |-> [x \in DOMAIN list \cup {fd} |-> IF x = fd THEN data ELSE list[x]]]

\* The epoll_data of the descriptors in S, by ascending descriptor
RECURSIVE DataOf(_, _)
DataOf(S, list) ==
    IF S = {} THEN <<>>
    ELSE LET fd == CHOOSE x \in S : \A y \in S : x <= y IN
         <<list[fd]>> \o DataOf(S \ {fd}, list)

\* ffi::epoll_wait: the set of ways the call can return.  -1 (EINVAL) when
\* maxevents <= 0; otherwise as many ready descriptors of the interest list
\* as fit in maxevents; with nothing ready it returns 0 once a non-negative
\* timeout has elapsed and does not return for a negative one.
epoll_wait(list, ready, maxevents, timeout, fail) ==
    IF fail \/ maxevents <= 0
    THEN {[res |-> -1, fds |-> {}]}
    ELSE LET avail == DOMAIN list \cap ready
             n == IF Cardinality(avail) < maxevents THEN Cardinality(avail) ELSE maxevents
         IN IF n = 0 /\ timeout < 0 THEN {}
            ELSE {[res |-> n, fds |-> S] : S \in {T \in SUBSET avail : Cardinality(T) = n}}

ExecInit ==
    /\ tasks = <<>>
    /\ ready_queue = <<>>
    /\ next_id = 0
    /\ pc = "sched"
    /\ cur = NoId
    /\ future = NoTask
    /\ ret = "none"
    /\ guard = FALSE
    /\ poisoned = FALSE
    /\ park_token = FALSE
    /\ sleeping = [i \in Ids |-> 0]
    /\ unparkers = 0
    /\ extra = 0
    /\ fault = "none"
    /\ wake_failed = FALSE

HistInit ==
    /\ kind_of = [i \in Ids |-> "none"]
    /\ pushed = 0
    /\ popped = 0
    /\ tickets = <<>>
    /\ cur_ticket = 0
    /\ ndrives = [i \in Ids |-> 0]
    /\ nready = [i \in Ids |-> 0]
    /\ nfires = [i \in Ids |-> 0]
    /\ fresh = [i \in Ids |-> 0]
    /\ advances = [i \in Ids |-> 0]
    /\ timer_fired = [i \in Ids |-> 0]
    /\ printed = [i \in Ids |-> <<>>]

CoIdle ==
    /\ co = NoTask
    /\ co_ret = "none"
    /\ co_polls = 0
    /\ co_hist = <<>>
    /\ co_trace = NoTrace
    /\ co_out = <<>>
    /\ co_moves = 0

\* No Poll has been created; the caller holds MaxSources connected
\* TcpStreams, none of them readable yet.
ReInit ==
    /\ poll_fd = NoFd
    /\ interest = <<>>
    /\ readable = {}
    /\ re_last = NoCall
    /\ first_reg = [s \in Sources |-> NoReg]
    /\ seen_ready = {}

\* AsyncTimer::new: not started, no thread, no poll made yet
Handles == 1 .. MaxHandles
AtInit ==
    /\ at = AsyncTimerNew
    /\ at_handles = <<>>
    /\ at_spawns = <<>>
    /\ at_sleeping = <<>>
    /\ at_wakes = [h \in Handles |-> 0]

Init == ExecInit /\ HistInit /\ CoIdle /\ ReInit /\ AtInit

\* Faulty variant of Schedule: `self.next_id += 1` is missing.
Schedule_noIncrement(kind, n) ==
    /\ pc = "sched"
    /\ next_id < MaxTasks
    /\ Awaited(tasks) + NewTask(kind, n).waits <= MaxWaits
    /\ tasks' = With(tasks, next_id, NewTask(kind, n))
    /\ ready_queue' = Append(ready_queue, next_id)
    /\ next_id' = next_id
    /\ kind_of' = [kind_of EXCEPT ![next_id] = kind]
    /\ pushed' = pushed + 1
    /\ tickets' = Append(tickets, pushed + 1)
    /\ UNCHANGED <<pc, cur, future, ret, guard, poisoned, park_token, sleeping,
                   unparkers, extra, fault, wake_failed>>
    /\ UNCHANGED <<popped, cur_ticket, ndrives, nready, nfires, fresh, advances,
                   timer_fired, printed>>
    /\ UNCHANGED <<coVars, reVars, atVars>>

\* Executor::schedule, called by main before block
Schedule(kind, n) ==
    /\ pc = "sched"
    /\ next_id < MaxTasks
    /\ Awaited(tasks) + NewTask(kind, n).waits <= MaxWaits
    /\ tasks' = With(tasks, next_id, NewTask(kind, n))
    /\ ready_queue' = Append(ready_queue, next_id)
    /\ next_id' = next_id + 1
    /\ kind_of' = [kind_of EXCEPT ![next_id] = kind]
    /\ pushed' = pushed + 1
    /\ tickets' = Append(tickets, pushed + 1)
    /\ UNCHANGED <<pc, cur, future, ret, guard, poisoned, park_token, sleeping,
                   unparkers, extra, fault, wake_failed>>
    /\ UNCHANGED <<popped, cur_ticket, ndrives, nready, nfires, fresh, advances,
                   timer_fired, printed>>
    /\ UNCHANGED <<coVars, reVars, atVars>>

\* main calls Executor::block
BlockStart ==
    /\ pc = "sched"
    /\ pc' = "drain"
    /\ UNCHANGED <<tasks, ready_queue, next_id, cur, future, ret, guard, poisoned,
                   park_token, sleeping, unparkers, extra, fault, wake_failed>>
    /\ UNCHANGED <<histVars, coVars, reVars, atVars>>

\* Faulty variant of Dequeue: pop_back instead of pop_front.
Dequeue_popBack ==
    /\ pc = "drain"
    /\ ~guard
    /\ IF ready_queue = <<>>
       THEN /\ pc' = "check"
            /\ UNCHANGED <<ready_queue, cur, guard, tasks, future, fault, poisoned>>
            /\ UNCHANGED <<tickets, cur_ticket, popped>>
       ELSE /\ cur' = ready_queue[Len(ready_queue)]
            /\ ready_queue' = SubSeq(ready_queue, 1, Len(ready_queue) - 1)
            /\ cur_ticket' = tickets[Len(tickets)]
            /\ tickets' = SubSeq(tickets, 1, Len(tickets) - 1)
            /\ popped' = popped + 1
            /\ IF ready_queue[Len(ready_queue)] \in DOMAIN tasks
               THEN /\ future' = tasks[ready_queue[Len(ready_queue)]]
                    /\ tasks' = Without(tasks, ready_queue[Len(ready_queue)])
                    /\ guard' = TRUE
                    /\ pc' = "poll"
                    /\ UNCHANGED <<poisoned, fault>>
               ELSE /\ pc' = "panicked"
                    /\ fault' = "unwrap_none"
                    /\ guard' = FALSE
                    /\ poisoned' = TRUE
                    /\ UNCHANGED <<tasks, future>>
    /\ UNCHANGED <<next_id, ret, park_token, sleeping, unparkers, extra, wake_failed>>
    /\ UNCHANGED <<kind_of, printed, pushed, ndrives, nready, nfires, fresh, advances,
                   timer_fired>>
    /\ UNCHANGED <<coVars, reVars, atVars>>

\* Faulty variant of Dequeue: the future is driven through `get_mut`, its
\* entry stays in the table.
Dequeue_keepEntry ==
    /\ pc = "drain"
    /\ ~guard
    /\ IF ready_queue = <<>>
       THEN /\ pc' = "check"
            /\ UNCHANGED <<ready_queue, cur, guard, tasks, future, fault, poisoned>>
            /\ UNCHANGED <<tickets, cur_ticket, popped>>
       ELSE /\ cur' = Head(ready_queue)
            /\ ready_queue' = Tail(ready_queue)
            /\ cur_ticket' = Head(tickets)
            /\ tickets' = Tail(tickets)
            /\ popped' = popped + 1
            /\ IF Head(ready_queue) \in DOMAIN tasks
               THEN /\ future' = tasks[Head(ready_queue)]
                    /\ tasks' = tasks
                    /\ guard' = TRUE
                    /\ pc' = "poll"
                    /\ UNCHANGED <<poisoned, fault>>
               ELSE /\ pc' = "panicked"
                    /\ fault' = "unwrap_none"
                    /\ guard' = FALSE
                    /\ poisoned' = TRUE
                    /\ UNCHANGED <<tasks, future>>
    /\ UNCHANGED <<next_id, ret, park_token, sleeping, unparkers, extra, wake_failed>>
    /\ UNCHANGED <<kind_of, printed, pushed, ndrives, nready, nfires, fresh, advances,
                   timer_fired>>
    /\ UNCHANGED <<coVars, reVars, atVars>>


\* block: `while let Some(id) = self.ready_queue.lock().unwrap().pop_front()`
\* and `let mut future = self.tasks.remove(&id).unwrap();`.
\* The MutexGuard is a temporary of the scrutinee: with Some(id) it lives to
\* the end of the loop body, with None it is dropped at once.  A panic of
\* the unwrap unwinds through the guard, which poisons the Mutex.
Dequeue ==
    /\ pc = "drain"
    /\ ~guard
    /\ IF ready_queue = <<>>
       THEN /\ pc' = "check"
            /\ UNCHANGED <<ready_queue, cur, guard, tasks, future, fault, poisoned>>
            /\ UNCHANGED <<tickets, cur_ticket, popped>>
       ELSE /\ cur' = Head(ready_queue)
            /\ ready_queue' = Tail(ready_queue)
            /\ cur_ticket' = Head(tickets)
            /\ tickets' = Tail(tickets)
            /\ popped' = popped + 1
            /\ IF Head(ready_queue) \in DOMAIN tasks
               THEN /\ future' = tasks[Head(ready_queue)]
                    /\ tasks' = Without(tasks, Head(ready_queue))
                    /\ guard' = TRUE
                    /\ pc' = "poll"
                    /\ UNCHANGED <<poisoned, fault>>
               ELSE /\ pc' = "panicked"
                    /\ fault' = "unwrap_none"
                    /\ guard' = FALSE
                    /\ poisoned' = TRUE
                    /\ UNCHANGED <<tasks, future>>
    /\ UNCHANGED <<next_id, ret, park_token, sleeping, unparkers, extra, wake_failed>>
    /\ UNCHANGED <<kind_of, printed, pushed, ndrives, nready, nfires, fresh, advances,
                   timer_fired>>
    /\ UNCHANGED <<coVars, reVars, atVars>>

\* block: from_id, Context::from_waker and `future.as_mut().poll(&mut ctx)`;
\* an AsyncTimer started by this poll spawns its thread.
Poll ==
    /\ pc = "poll"
    /\ LET r == PollTask(future) IN
       /\ future' = r.fut
       /\ ret' = r.ret
       /\ sleeping' = Bump(sleeping, cur, r.spawn)
       /\ advances' = Bump(advances, cur, r.adv)
       /\ printed' = [printed EXCEPT ![cur] = @ \o r.out]
       /\ nready' = Bump(nready, cur, IF r.ret = "Ready" THEN 1 ELSE 0)
       /\ IF r.ret = "panic"
          THEN /\ pc' = "panicked"
               /\ fault' = "future_panic"
               /\ guard' = FALSE
               /\ poisoned' = TRUE
          ELSE /\ pc' = "reinsert"
               /\ UNCHANGED <<fault, guard, poisoned>>
    /\ ndrives' = Bump(ndrives, cur, 1)
    /\ fresh' = [fresh EXCEPT ![cur] = 0]
    /\ UNCHANGED <<tasks, ready_queue, next_id, cur, park_token, unparkers, extra,
                   wake_failed>>
    /\ UNCHANGED <<kind_of, pushed, popped, tickets, cur_ticket, nfires, timer_fired>>
    /\ UNCHANGED <<coVars, reVars, atVars>>

\* Faulty variant of Reinsert: a Pending future is dropped like a Ready one.
Reinsert_dropPending ==
    /\ pc = "reinsert"
    /\ tasks' = tasks
    /\ future' = NoTask
    /\ cur' = NoId
    /\ guard' = FALSE
    /\ ret' = "none"
    /\ pc' = "drain"
    /\ UNCHANGED <<ready_queue, next_id, poisoned, park_token, sleeping,
                   unparkers, extra, fault, wake_failed>>
    /\ UNCHANGED <<histVars, coVars, reVars, atVars>>

\* Faulty variant of Reinsert: a Ready future is put back like a Pending one.
Reinsert_keepReady ==
    /\ pc = "reinsert"
    /\ tasks' = With(tasks, cur, future)
    /\ future' = NoTask
    /\ cur' = NoId
    /\ guard' = FALSE
    /\ ret' = "none"
    /\ pc' = "drain"
    /\ UNCHANGED <<ready_queue, next_id, poisoned, park_token, sleeping,
                   unparkers, extra, fault, wake_failed>>
    /\ UNCHANGED <<histVars, coVars, reVars, atVars>>

\* Faulty variant of Reinsert: a Pending future is put back and its id is queued
\* again at once, without waiting for its handle.
Reinsert_requeue ==
    /\ pc = "reinsert"
    /\ tasks' = IF ret = "Pending" THEN With(tasks, cur, future) ELSE tasks
    /\ ready_queue' = IF ret = "Pending" THEN Append(ready_queue, cur) ELSE ready_queue
    /\ tickets' = IF ret = "Pending" THEN Append(tickets, pushed + 1) ELSE tickets
    /\ pushed' = IF ret = "Pending" THEN pushed + 1 ELSE pushed
    /\ future' = NoTask
    /\ cur' = NoId
    /\ guard' = FALSE
    /\ ret' = "none"
    /\ pc' = "drain"
    /\ UNCHANGED <<next_id, poisoned, park_token, sleeping, unparkers, extra,
                   fault, wake_failed>>
    /\ UNCHANGED <<kind_of, printed, popped, cur_ticket, ndrives, nready, nfires, fresh,
                   advances, timer_fired>>
    /\ UNCHANGED <<coVars, reVars, atVars>>

\* block: the match on the poll result and the end of the loop body, where
\* the guard of the scrutinee is dropped.
Reinsert ==
    /\ pc = "reinsert"
    /\ tasks' = IF ret = "Pending" THEN With(tasks, cur, future) ELSE tasks
    /\ future' = NoTask
    /\ cur' = NoId
    /\ guard' = FALSE
    /\ ret' = "none"
    /\ pc' = "drain"
    /\ UNCHANGED <<ready_queue, next_id, poisoned, park_token, sleeping,
                   unparkers, extra, fault, wake_failed>>
    /\ UNCHANGED <<histVars, coVars, reVars, atVars>>

\* block: `if tasks_count > 0 { ... thread::park() } else { break }`
Check ==
    /\ pc = "check"
    /\ pc' = IF Cardinality(DOMAIN tasks) > 0 THEN "park" ELSE "done"
    /\ UNCHANGED <<tasks, ready_queue, next_id, cur, future, ret, guard, poisoned,
                   park_token, sleeping, unparkers, extra, fault, wake_failed>>
    /\ UNCHANGED <<histVars, coVars, reVars, atVars>>

\* thread::park returns by consuming the token
Park ==
    /\ pc = "park"
    /\ park_token
    /\ park_token' = FALSE
    /\ pc' = "drain"
    /\ UNCHANGED <<tasks, ready_queue, next_id, cur, future, ret, guard, poisoned,
                   sleeping, unparkers, extra, fault, wake_failed>>
    /\ UNCHANGED <<histVars, coVars, reVars, atVars>>

\* thread::park may also return spuriously
ParkSpurious ==
    /\ pc = "park"
    /\ ~park_token
    /\ pc' = "drain"
    /\ UNCHANGED <<tasks, ready_queue, next_id, cur, future, ret, guard, poisoned,
                   park_token, sleeping, unparkers, extra, fault, wake_failed>>
    /\ UNCHANGED <<histVars, coVars, reVars, atVars>>

\* Faulty variant of WakePush: wake returns after push_back, `self.thread.unpark()`
\* is missing.
WakePush_noUnpark(id) ==
    /\ ~guard
    /\ IF poisoned
       THEN /\ wake_failed' = TRUE
            /\ UNCHANGED <<ready_queue, unparkers, pushed, tickets, nfires, fresh>>
       ELSE /\ ready_queue' = Append(ready_queue, id)
            /\ unparkers' = unparkers
            /\ pushed' = pushed + 1
            /\ tickets' = Append(tickets, pushed + 1)
            /\ nfires' = Bump(nfires, id, 1)
            /\ fresh' = Bump(fresh, id, 1)
            /\ UNCHANGED wake_failed

\* MyWaker::wake, first statement, on a thread other than the executor's:
\* `self.ready_queue.lock().unwrap().push_back(self.task_id)`.  The lock
\* waits while the executor holds the guard; on a poisoned Mutex the unwrap
\* panics and the thread dies without pushing.
WakePush(id) ==
    /\ ~guard
    /\ IF poisoned
       THEN /\ wake_failed' = TRUE
            /\ UNCHANGED <<ready_queue, unparkers, pushed, tickets, nfires, fresh>>
       ELSE /\ ready_queue' = Append(ready_queue, id)
            /\ unparkers' = unparkers + 1
            /\ pushed' = pushed + 1
            /\ tickets' = Append(tickets, pushed + 1)
            /\ nfires' = Bump(nfires, id, 1)
            /\ fresh' = Bump(fresh, id, 1)
            /\ UNCHANGED wake_failed

\* MyWaker::wake, second statement: `self.thread.unpark()`
WakeUnpark ==
    /\ unparkers > 0
    /\ unparkers' = unparkers - 1
    /\ park_token' = TRUE
    /\ UNCHANGED <<tasks, ready_queue, next_id, pc, cur, future, ret, guard,
                   poisoned, sleeping, extra, fault, wake_failed>>
    /\ UNCHANGED <<histVars, coVars, reVars, atVars>>

\* The thread spawned by AsyncTimer::poll: its sleep is over and it calls
\* waker.wake()
TimerFire(id) ==
    /\ sleeping[id] > 0
    /\ sleeping' = Bump(sleeping, id, -1)
    /\ WakePush(id)
    /\ timer_fired' = IF poisoned THEN timer_fired ELSE Bump(timer_fired, id, 1)
    /\ UNCHANGED <<tasks, next_id, pc, cur, future, ret, guard, poisoned,
                   park_token, extra, fault>>
    /\ UNCHANGED <<kind_of, printed, popped, cur_ticket, ndrives, nready, advances>>
    /\ UNCHANGED <<coVars, reVars, atVars>>

\* A clone of the handle minted for a "custom" future is invoked once more
\* by some other thread.
ExtraWake(id) ==
    /\ kind_of[id] = "custom"
    /\ ndrives[id] > 0
    /\ extra < MaxExtraWakes
    /\ extra' = extra + 1
    /\ WakePush(id)
    /\ UNCHANGED <<tasks, next_id, pc, cur, future, ret, guard, poisoned,
                   park_token, sleeping, fault>>
    /\ UNCHANGED <<kind_of, printed, popped, cur_ticket, ndrives, nready, advances, timer_fired>>
    /\ UNCHANGED <<coVars, reVars, atVars>>

\* A "custom" future invokes its handle from inside poll, on the executor's
\* thread: wake locks the Mutex whose guard that thread already holds.
\* std leaves the outcome open: the second lock never returns, it deadlocks
\* or it panics.
WakeInsideDrive ==
    /\ pc = "poll"
    /\ future.kind = "custom"
    /\ guard
    /\ \E outcome \in {"relock_deadlock", "relock_panic"} :
          /\ fault' = outcome
          /\ IF outcome = "relock_deadlock"
             THEN /\ pc' = "deadlocked"
                  /\ UNCHANGED <<guard, poisoned>>
             ELSE /\ pc' = "panicked"
                  /\ guard' = FALSE
                  /\ poisoned' = TRUE
    /\ UNCHANGED <<tasks, ready_queue, next_id, cur, future, ret, park_token,
                   sleeping, unparkers, extra, wake_failed>>
    /\ UNCHANGED <<histVars, coVars, reVars, atVars>>

Next ==
    \/ \E kind \in Kinds, n \in 0 .. MaxWaits : Schedule(kind, n)
    \/ BlockStart
    \/ Dequeue
    \/ Poll
    \/ Reinsert
    \/ Check
    \/ Park
    \/ ParkSpurious
    \/ \E id \in Ids : TimerFire(id)
    \/ \E id \in Ids : ExtraWake(id)
    \/ WakeUnpark
    \/ WakeInsideDrive

Spec == Init /\ [][Next]_vars

(***************************************************************************)
(* The programs of the repository run the Executor over futures that wait  *)
(* on AsyncTimers only (runtime/main.rs, pin/main.rs).                     *)
(***************************************************************************)
NextTimers ==
    \/ \E kind \in {"async", "CoroutineB"}, n \in 0 .. MaxWaits : Schedule(kind, n)
    \/ BlockStart
    \/ Dequeue
    \/ Poll
    \/ Reinsert
    \/ Check
    \/ Park
    \/ ParkSpurious
    \/ \E id \in Ids : TimerFire(id)
    \/ WakeUnpark

SpecTimers == Init /\ [][NextTimers]_vars

\* The thread inside block runs when it can (a spurious return of park is
\* permitted, never promised), every timer thread's sleep ends and every
\* thread inside wake goes on to unpark.
FairSpecTimers ==
    /\ Init
    /\ [][NextTimers]_vars
    /\ WF_vars(Dequeue \/ Poll \/ Reinsert \/ Check \/ Park)
    /\ WF_vars(\E id \in Ids : TimerFire(id))
    /\ WF_vars(WakeUnpark)

(***************************************************************************)
(* The reactor: one Poll at a time, used by one caller.                    *)
(***************************************************************************)
\* Poll::new
PollNew(fail) ==
    /\ poll_fd = NoFd
    /\ LET res == epoll_create(1, fail) IN
       /\ poll_fd' = IF res < 0 THEN NoFd ELSE res
       /\ re_last' = [NoCall EXCEPT !.op = "new", !.os = res, !.fail = fail,
                                    !.result = IF res < 0 THEN "Err" ELSE "Ok",
                                    !.had_poll = FALSE]
    /\ UNCHANGED <<interest, readable, first_reg, seen_ready>>
    /\ UNCHANGED <<execVars, histVars, coVars, atVars>>

\* Registry::register(source, token, EPOLLIN)
Register(source, token, fail) ==
    /\ poll_fd # NoFd
    /\ LET o == epoll_ctl_add(interest, source, token, fail)
           result == IF o.res < 0 THEN "Err" ELSE "Ok"
       IN
       /\ interest' = o.list
       /\ re_last' = [NoCall EXCEPT !.op = "register", !.src = source, !.token = token,
                                    !.os = o.res, !.fail = fail, !.result = result,
                                    !.registered = Cardinality(DOMAIN interest),
                                    !.had_poll = TRUE]
       /\ first_reg' = IF first_reg[source] = NoReg /\ ~fail
                       THEN [first_reg EXCEPT ![source] = [token |-> token, result |-> result]]
                       ELSE first_reg
    /\ UNCHANGED <<poll_fd, readable, seen_ready>>
    /\ UNCHANGED <<execVars, histVars, coVars, atVars>>

\* Faulty variant of PollResult: the length is never set.
PollResult_keepLen(len, res) ==
    IF res < 0
    THEN [result |-> "Err", len |-> len]
    ELSE [result |-> "Ok", len |-> len]

\* Faulty variant of PollResult: the batch is cleared before Err is returned.
PollResult_clearOnErr(len, res) ==
    IF res < 0
    THEN [result |-> "Err", len |-> 0]
    ELSE [result |-> "Ok", len |-> res]

\* The tail of Poll::poll: `if res < 0 { return Err } set_len(res as usize);
\* Ok(())`.  res is not negative where it is cast, so the cast keeps it.
PollResult(len, res) ==
    IF res < 0
    THEN [result |-> "Err", len |-> len]
    ELSE [result |-> "Ok", len |-> res]

\* Poll::poll(events, timeout) with a batch of capacity cap and length len
PollPoll(cap, len, timeout, fail) ==
    /\ poll_fd # NoFd
    /\ LET t == IF timeout.some THEN timeout.val ELSE -1
           max_events == AsI32(cap)
       IN \E o \in epoll_wait(interest, readable, max_events, t, fail) :
            LET r == PollResult(len, o.res) IN
            /\ re_last' = [NoCall EXCEPT !.op = "poll", !.os = o.res, !.fail = fail,
                                         !.result = r.result, !.cap = cap,
                                         !.len_before = len, !.len = r.len,
                                         !.batch = DataOf(o.fds, interest),
                                         !.timeout = t,
                                         !.registered = Cardinality(DOMAIN interest),
                                         !.had_poll = TRUE]
            /\ seen_ready' = IF r.result = "Ok" THEN seen_ready \cup o.fds ELSE seen_ready
    /\ UNCHANGED <<poll_fd, interest, readable, first_reg>>
    /\ UNCHANGED <<execVars, histVars, coVars, atVars>>

\* <Registry as Drop>::drop: close(raw_fd); a failure is printed, not returned
DropPoll(fail) ==
    /\ poll_fd # NoFd
    /\ poll_fd' = NoFd
    /\ interest' = <<>>
    /\ re_last' = [NoCall EXCEPT !.op = "drop", !.os = IF fail THEN -1 ELSE 0,
                                 !.fail = fail, !.result = "Ok", !.had_poll = TRUE]
    /\ first_reg' = [s \in Sources |-> NoReg]
    /\ seen_ready' = {}
    /\ UNCHANGED readable
    /\ UNCHANGED <<execVars, histVars, coVars, atVars>>

\* The peer of a stream sends data / the caller reads all of it
BecomeReadable(source) ==
    /\ source \notin readable
    /\ readable' = readable \cup {source}
    /\ UNCHANGED <<poll_fd, interest, re_last, first_reg, seen_ready>>
    /\ UNCHANGED <<execVars, histVars, coVars, atVars>>

Drain(source) ==
    /\ source \in readable
    /\ readable' = readable \ {source}
    /\ UNCHANGED <<poll_fd, interest, re_last, first_reg, seen_ready>>
    /\ UNCHANGED <<execVars, histVars, coVars, atVars>>

NextRe ==
    \/ \E fail \in BOOLEAN : PollNew(fail)
    \/ \E source \in Sources, token \in Tokens, fail \in BOOLEAN :
          Register(source, token, fail)
    \/ \E cap \in 0 .. MaxCap, timeout \in Timeouts, fail \in BOOLEAN :
          \E len \in {0, cap} : PollPoll(cap, len, timeout, fail)
    \/ \E fail \in BOOLEAN : DropPoll(fail)
    \/ \E source \in Sources : BecomeReadable(source)
    \/ \E source \in Sources : Drain(source)

SpecRe == Init /\ [][NextRe]_vars

(***************************************************************************)
(* A hand-expanded computation polled directly by its owner, as many times *)
(* as the owner likes.                                                     *)
(***************************************************************************)
CoInit ==
    /\ co \in {CoroutineNew, CoroutineBNew}
    /\ co_ret = "none"
    /\ co_polls = 0
    /\ co_hist = <<>>
    /\ co_trace = NoTrace
    /\ co_out = <<>>
    /\ co_moves = 0

\* <Coroutine as Future>::poll on co
CoPoll(e1, e2) ==
    /\ co.kind = "Coroutine"
    /\ co_polls < MaxPolls
    /\ LET r == PollCoroutine(co, e1, e2) IN
       /\ co' = r.fut
       /\ co_ret' = r.ret
       /\ co_hist' = Append(co_hist, r.fut.state)
       /\ co_trace' = [NoTrace EXCEPT !.path = r.path, !.nested = r.nested]
       /\ co_out' = co_out \o r.out
    /\ co_polls' = co_polls + 1
    /\ UNCHANGED co_moves
    /\ UNCHANGED <<execVars, histVars, reVars, atVars>>

\* <CoroutineB as Future>::poll on co
CoPollB ==
    /\ co.kind = "CoroutineB"
    /\ co_polls < MaxPolls
    /\ LET r == PollCoroutineB(co) IN
       /\ co' = r.fut
       /\ co_ret' = r.ret
       /\ co_hist' = Append(co_hist, r.fut.state)
       /\ co_trace' = [NoTrace EXCEPT !.path = r.path, !.nested = r.nested]
       /\ co_out' = co_out \o r.out
    /\ co_polls' = co_polls + 1
    /\ UNCHANGED co_moves
    /\ UNCHANGED <<execVars, histVars, reVars, atVars>>

\* The owner moves the computation before it is polled for the first time
\* (`future = future_b`, the move into the closure, Box::pin in schedule).
CoMove ==
    /\ co_polls = 0
    /\ co_moves < MaxMoves
    /\ co_moves' = co_moves + 1
    /\ UNCHANGED <<co, co_ret, co_polls, co_hist, co_trace, co_out>>
    /\ UNCHANGED <<execVars, histVars, reVars, atVars>>

NextCo ==
    \/ \E e1 \in BOOLEAN, e2 \in BOOLEAN : CoPoll(e1, e2)
    \/ CoPollB
    \/ CoMove

InitCo == ExecInit /\ HistInit /\ CoInit /\ ReInit /\ AtInit

SpecCo == InitCo /\ [][NextCo]_vars

(***************************************************************************)
(* One AsyncTimer polled directly by its owner, as many times as the owner *)
(* likes, each time with a Context made from a handle of the owner's       *)
(* choice.                                                                 *)
(***************************************************************************)
\* <AsyncTimer as Future>::poll on at, with `cx.waker()` = handle h; the
\* spawned thread owns the clone of h made in this poll.
AtPoll(h) ==
    /\ Len(at_handles) < MaxPolls
    /\ LET r == AsyncTimerPoll(at) IN
       /\ at' = r.timer
       /\ at_spawns' = Append(at_spawns, r.spawn)
       /\ at_sleeping' = at_sleeping \o [i \in 1 .. r.spawn |-> h]
    /\ at_handles' = Append(at_handles, h)
    /\ UNCHANGED at_wakes
    /\ UNCHANGED <<execVars, histVars, coVars, reVars>>

\* The closure given to thread::spawn: the sleep is over, `waker.wake()`
AtFire ==
    /\ at_sleeping # <<>>
    /\ at_wakes' = Bump(at_wakes, Head(at_sleeping), 1)
    /\ at_sleeping' = Tail(at_sleeping)
    /\ UNCHANGED <<at, at_handles, at_spawns>>
    /\ UNCHANGED <<execVars, histVars, coVars, reVars>>

NextAt ==
    \/ \E h \in Handles : AtPoll(h)
    \/ AtFire

SpecAt == Init /\ [][NextAt]_vars

\* A spawned thread that is not killed finishes its sleep and calls wake.
FairSpecAt == SpecAt /\ WF_vars(AtFire)

(***************************************************************************)
(* Properties.                                                             *)
(***************************************************************************)
Count(id, q) == Cardinality({i \in 1 .. Len(q) : q[i] = id})
Scheduled == 0 .. (next_id - 1)

\* C1: block returns only with an empty task table, and by then every
\* scheduled computation has returned Ready from a drive exactly once; no
\* computation ever returns Ready twice.
C1_BlockReturnsAllDoneOnce ==
    /\ \A id \in Ids : nready[id] <= 1
    /\ pc = "done" => /\ DOMAIN tasks = {}
                      /\ \A id \in Scheduled : nready[id] = 1

C1_Witness ==
    /\ pc = "done"
    /\ next_id = 2
    /\ \A id \in Scheduled : nready[id] = 1 /\ ndrives[id] >= 2

\* C2: once block has been called it returns, when the futures wait on
\* AsyncTimers only and the timer threads are scheduled fairly.
C2_BlockReturns == (pc # "sched") ~> (pc = "done")

C2_Witness ==
    /\ pc = "done"
    /\ next_id = 2
    /\ \A id \in Scheduled : timer_fired[id] >= 1

\* C3: no wake-up is lost: once the scheduler has seen the ready queue
\* empty and is about to park or is inside park, a non-empty queue always
\* comes with an unpark that is still to be consumed (the token is set) or
\* still to be made (a thread is between push_back and unpark).
C3_NoLostWakeup ==
    (pc \in {"check", "park"} /\ ready_queue # <<>>) =>
        (park_token \/ unparkers > 0)

C3_Witness ==
    /\ pc = "check"
    /\ ready_queue # <<>>
    /\ DOMAIN tasks # {}

\* C4: an id dequeued by block that is no longer in the task table is
\* skipped; the scheduler does not crash on it.
C4_StaleIdSkipped == fault # "unwrap_none"

\* C5: when a handle was fired more than once before its id was dequeued,
\* the drives made for the duplicate entries are no-ops: a drive of an id
\* that no fire has preceded since the previous drive of that id began does
\* not make an AsyncTimer of the task report Ready.
C5_DuplicateEntryIsNoOp ==
    [][(pc = "poll" /\ ndrives[cur] > 0 /\ fresh[cur] = 0 /\ pc' = "reinsert")
          => advances' = advances]_vars

\* C6: a wake made from inside a drive, on the scheduler's own thread,
\* completes: the scheduler neither deadlocks nor panics on the queue lock.
C6_WakeInsideDriveCompletes == fault \notin {"relock_deadlock", "relock_panic"}

\* C7 as stated: a drive of an id other than its first comes after a fire of
\* that id made since the previous drive of that id began.
C7_DriveAfterFreshFire ==
    (pc = "poll" /\ ndrives[cur] > 0) => fresh[cur] > 0

\* C7 as amended: every drive of an id other than its first consumes a
\* queue entry of its own that a fire of that id pushed, so the drives begun
\* and the entries still waiting never exceed one plus the fires of the id.
C7_DrivesBoundedByFires ==
    \A id \in Ids :
        ndrives[id] + Count(id, ready_queue)
          + (IF pc = "poll" /\ cur = id THEN 1 ELSE 0) <= 1 + nfires[id]

C7_Witness ==
    /\ pc = "poll"
    /\ ndrives[cur] = 2
    /\ fresh[cur] = 0

\* C8: the ready queue is served in FIFO order: the k-th successful
\* pop_front takes the entry made by the k-th push_back, and the entries
\* still queued are the later pushes, in the order they were made.
C8_FifoOrder ==
    /\ Len(tickets) = Len(ready_queue)
    /\ \A i \in 1 .. Len(tickets) : tickets[i] = popped + i
    /\ popped > 0 => cur_ticket = popped

C8_Witness ==
    /\ next_id = 2
    /\ timer_fired[1] = 1
    /\ timer_fired[0] = 0
    /\ ndrives[1] = 2
    /\ ndrives[0] = 1

\* C9: ids are fresh and increasing: next_id is above every id in the table,
\* in the queue and in the hands of block, and while main is scheduling the
\* table and the queue hold exactly the ids 0 .. next_id - 1, one entry each.
C9_FreshIds ==
    /\ \A id \in DOMAIN tasks \cup Range(ready_queue) : id < next_id
    /\ cur < next_id
    /\ pc = "sched" => /\ DOMAIN tasks = Scheduled
                       /\ ready_queue = [i \in 1 .. next_id |-> i - 1]

C9_Witness ==
    /\ pc = "sched"
    /\ next_id = 2
    /\ Len(ready_queue) = 2

\* C10: once a hand-expanded computation is Resolved, every further poll
\* panics: it returns neither Ready nor Pending and leaves the state alone.
C10_PollAfterResolvedPanics ==
    [][(co.state = "Resolved" /\ co_polls' # co_polls) =>
           (co_ret' = "panic" /\ co' = co)]_vars

C10_Witness ==
    /\ co.kind = "CoroutineB"
    /\ co.state = "Resolved"
    /\ co_ret = "panic"

Rank(phase) ==
    CASE phase = "Start" -> 0
      [] phase = "Wait1" -> 1
      [] phase = "Wait2" -> 2
      [] phase = "Resolved" -> 3

\* C11: the phases a hand-expanded computation visits never go back and
\* never skip: the phases one drive assigns, starting from the phase it found,
\* are consecutive in the order Start, Wait1, Wait2, Resolved, and the drive
\* leaves the computation in the last of them.
C11_PhasesMonotone ==
    [][co_polls' # co_polls =>
         LET p == <<co.state>> \o co_trace'.path IN
         /\ \A i \in 1 .. (Len(p) - 1) : Rank(p[i + 1]) = Rank(p[i]) + 1
         /\ co'.state = p[Len(p)]]_vars

C11_Witness ==
    /\ co.kind = "Coroutine"
    /\ co.state = "Resolved"
    /\ co_hist = <<"Wait1", "Wait1", "Wait2", "Resolved">>

\* What a computation with the two waits of CoroutineB prints in all
ExpectedB ==
    << Line("Coroutine started", <<>>),
       Line("2 seconds elapsed", <<"Hello ">>),
       Line("4 seconds elapsed", <<"Hello ", "World!!!">>) >>

IsPrefixOf(a, b) == Len(a) <= Len(b) /\ SubSeq(b, 1, Len(a)) = a

\* The side effects of a CoroutineB run by the Executor: "Hello " is
\* appended before "World!!!", each once, the k-th of them in the drive in
\* which the k-th nested timer reported Ready, and all of them by the time
\* the computation has returned Ready.
EffectsInOrder(id) ==
    /\ IsPrefixOf(printed[id], ExpectedB)
    /\ Len(printed[id]) = (IF ndrives[id] > 0 THEN 1 ELSE 0) + advances[id]
    /\ nready[id] = 1 => printed[id] = ExpectedB
    /\ id \in DOMAIN tasks =>
          tasks[id].buffer.val =
              [i \in 1 .. (IF tasks[id].state = "Wait2" THEN 1 ELSE 0) |-> "Hello "]

ReturnsReady(id) ==
    pc = "reinsert" /\ cur = id /\ ret = "Ready"

\* C12 as stated: the side effects of a computation with two sequential
\* waits happen in order, once each, each after its timer reported Ready,
\* and the buffer holds "Hello World!!!" when the computation returns Ready.
C12_EffectsAndBufferAtDone ==
    \A id \in Ids : kind_of[id] = "CoroutineB" =>
        /\ EffectsInOrder(id)
        /\ ReturnsReady(id) =>
              future.buffer = [some |-> TRUE, val |-> <<"Hello ", "World!!!">>]

\* C12 as amended: the side effects happen in order, once each, each after
\* its timer reported Ready; the buffer holds "Hello World!!!" when the
\* second side effect is made (it is the buffer printed last), and it has
\* been released when the computation returns Ready.
C12_EffectsInOrder ==
    \A id \in Ids : kind_of[id] = "CoroutineB" =>
        /\ EffectsInOrder(id)
        /\ ReturnsReady(id) =>
              /\ printed[id][Len(printed[id])].buf = <<"Hello ", "World!!!">>
              /\ future.buffer = NoBuffer

C12_Witness ==
    /\ pc = "reinsert"
    /\ ret = "Ready"
    /\ future.kind = "CoroutineB"
    /\ printed[cur] = ExpectedB
    /\ advances[cur] = 2

\* C13: after every successful Poll::poll the length of the batch is the
\* number of events the OS reported for that call, it is the number of
\* entries the OS wrote, and it never exceeds the capacity of the batch.
C13_LenIsReported ==
    (re_last.op = "poll" /\ re_last.result = "Ok") =>
        /\ re_last.len = re_last.os
        /\ re_last.len = Len(re_last.batch)
        /\ re_last.len <= re_last.cap

C13_Witness ==
    /\ re_last.op = "poll"
    /\ re_last.result = "Ok"
    /\ re_last.len = 1
    /\ re_last.len_before = 2
    /\ Cardinality(DOMAIN interest \cap readable) = 2

\* C14: a register call for a stream and token that were registered before
\* on this Poll and that a poll has since reported ready returns what the
\* first register call for them returned.
C14_ReRegisterSameResult ==
    (/\ re_last.op = "register"
     /\ ~re_last.fail
     /\ re_last.src \in seen_ready
     /\ first_reg[re_last.src].token = re_last.token)
        => re_last.result = first_reg[re_last.src].result

\* C15: a poll with no registered interest and a finite timeout returns Ok
\* with an empty batch, whatever batch it is given.
C15_EmptyPollIsOk ==
    (/\ re_last.op = "poll"
     /\ ~re_last.fail
     /\ re_last.registered = 0
     /\ re_last.timeout >= 0)
        => (re_last.result = "Ok" /\ re_last.len = 0)

\* C16: Poll::new, Registry::register and Poll::poll return Err exactly when
\* their system call returned a negative result; a failed poll leaves the
\* length of the batch as it was, and a failed new leaves no Poll behind.
C16_ErrIffNegative ==
    /\ re_last.op \in {"new", "register", "poll"} =>
          (re_last.result = "Err" <=> re_last.os < 0)
    /\ (re_last.op = "poll" /\ re_last.result = "Err") =>
          re_last.len = re_last.len_before
    /\ re_last.op = "new" =>
          poll_fd = (IF re_last.result = "Err" THEN NoFd ELSE re_last.os)

C16_Witness ==
    /\ re_last.op = "poll"
    /\ re_last.result = "Err"
    /\ re_last.os < 0
    /\ re_last.len_before = 2
    /\ re_last.len = 2

\* The step in which some thread calls wake on a handle bound to id: a timer
\* thread after its sleep, a holder of a clone, or the future itself from
\* inside its poll.
WakeCalled(id) ==
    \/ sleeping'[id] < sleeping[id]
    \/ (extra' > extra /\ (poisoned \/ nfires'[id] > nfires[id]))
    \/ (pc = "poll" /\ cur = id /\ fault = "none"
          /\ fault' \in {"relock_deadlock", "relock_panic"})

\* C17: every call of MyWaker::wake appends its id at the back of the ready
\* queue and afterwards unparks the scheduler thread, whether it is parked
\* or not; neither step changes the task table, next_id or the entries
\* already in the queue.
C17_WakeAppendsThenUnparks ==
    [][/\ \A id \in Ids : WakeCalled(id) =>
            /\ ready_queue' = Append(ready_queue, id)
            /\ unparkers' = unparkers + 1
            /\ tasks' = tasks
            /\ next_id' = next_id
       /\ unparkers' < unparkers =>
            /\ park_token'
            /\ UNCHANGED <<tasks, ready_queue, next_id>>]_vars

\* C18: a dequeue of an id that has a table entry takes the entry out of
\* the table and starts one drive of it; the entry is absent during the
\* whole drive; no drive happens except the one that follows a dequeue;
\* after the drive the future is put back under the same id if and only if
\* it returned Pending, and an id whose future returned Ready is never in
\* the table again.
C18_EntryAbsentDuringDrive ==
    /\ [](/\ pc \in {"poll", "reinsert"} => (cur \notin DOMAIN tasks /\ future # NoTask)
          /\ \A id \in Ids : nready[id] > 0 => (id \notin DOMAIN tasks /\ nready[id] = 1))
    /\ [][/\ (popped' # popped /\ cur' \in DOMAIN tasks) =>
               (pc' = "poll" /\ future' = tasks[cur'] /\ tasks' = Without(tasks, cur'))
          /\ pc' = "poll" => (pc = "poll" \/ popped' = popped + 1)
          /\ ndrives' # ndrives =>
               (pc = "poll" /\ pc' # "poll" /\ ndrives' = Bump(ndrives, cur, 1))
          /\ (pc = "reinsert" /\ pc' # "reinsert") =>
               (tasks' = IF ret = "Pending" THEN With(tasks, cur, future) ELSE tasks)
          /\ (pc # "reinsert" /\ next_id' = next_id) =>
               DOMAIN tasks' \subseteq DOMAIN tasks]_vars

C18_Witness ==
    /\ pc = "reinsert"
    /\ ret = "Pending"
    /\ ndrives[cur] = 2
    /\ cur \notin DOMAIN tasks
    /\ \E id \in Ids : nready[id] = 1

IsReady(result) == result = "Ready"

C20_BackReference ==
    /\ [](co.kind = "CoroutineB" =>
            /\ co.state = "Start" <=> co_polls = 0
            /\ co.state = "Start" => (~co.writer /\ ~co.buffer.some)
            /\ co.writer => co.buffer.some
            /\ co.state \in {"Wait1", "Wait2"} => (co.writer /\ co.buffer.some)
            /\ co.state = "Resolved" => (~co.writer /\ ~co.buffer.some))
    /\ [][(co.kind = "CoroutineB" /\ co_moves' # co_moves) =>
            (co.state = "Start" /\ ~co.writer /\ co' = co)]_vars

C20_Witness ==
    /\ co.kind = "CoroutineB"
    /\ co_moves > 0
    /\ co_hist = <<"Wait1", "Wait2", "Resolved">>
    /\ ~co.writer
    /\ ~co.buffer.some

RECURSIVE Sum(_)
Sum(q) == IF q = <<>> THEN 0 ELSE Head(q) + Sum(Tail(q))

\* C21: however often an AsyncTimer is polled, only its first poll spawns a
\* thread; the handle given to the first poll is invoked at most once, and
\* is invoked in the end; no handle given to a later poll is ever invoked.
C21_SpawnOnceWakeOnce ==
    /\ [](/\ \A i \in 1 .. Len(at_spawns) : at_spawns[i] = (IF i = 1 THEN 1 ELSE 0)
          /\ Len(at_sleeping) + Sum([h \in Handles |-> at_wakes[h]]) = Sum(at_spawns)
          /\ \A h \in Handles :
               at_wakes[h] <= (IF at_handles # <<>> /\ at_handles[1] = h THEN 1 ELSE 0))
    /\ (at_handles # <<>>) ~> (at_handles # <<>> /\ at_wakes[at_handles[1]] = 1)

C21_Witness ==
    /\ Len(at_handles) = MaxPolls
    /\ at_handles[1] = 1
    /\ at_handles[2] = 2
    /\ at_wakes[1] = 1
    /\ at_wakes[2] = 0
    /\ at_sleeping = <<>>

\* C22: with tasks that only await AsyncTimers one after another, every id
\* that block pops from the ready queue has its future in the task table at
\* that moment, so `tasks.remove(&id).unwrap()` succeeds and the drive
\* begins, however the timer threads interleave with the scheduler.
C22_PoppedIdIsResident ==
    [][popped' # popped =>
         /\ Head(ready_queue) \in DOMAIN tasks
         /\ cur' = Head(ready_queue)
         /\ future' = tasks[cur']
         /\ pc' = "poll"
         /\ fault' = "none"]_vars

C22_Witness ==
    /\ pc = "poll"
    /\ ndrives[cur] > 0
    /\ ready_queue # <<>>
    /\ unparkers > 0

\* Every task in the table is waiting for exactly one thing: an entry of
\* its id in the ready queue, or one timer thread that has not called wake.
ResidentQueuedOrTimed ==
    \A id \in DOMAIN tasks : Count(id, ready_queue) + sleeping[id] = 1

\* The scheduler is blocked inside thread::park (no token to consume) while
\* tasks remain: some timer thread has not finished its wake.
ParkedHasWakeToCome ==
    (pc = "park" /\ ~park_token /\ DOMAIN tasks # {}) =>
        \/ \E id \in DOMAIN tasks : sleeping[id] > 0
        \/ unparkers > 0

NoWakeToCome ==
    /\ ready_queue = <<>>
    /\ \A id \in Ids : sleeping[id] = 0

=============================================================================
